---- MODULE Spec2Model ----
(***************************************************************************)
(* Model of src/src/trie.rs: the radix-16 Merkle-Patricia `Trie`, a sorted *)
(* map of byte-string keys to byte-string values together with the         *)
(* on-demand merkleization of conceptual nodes addressed by                *)
(* (key, key_extra_nibble).                                                *)
(*                                                                         *)
(* Byte strings are sequences of integers 0..255.  Option<u8> is a         *)
(* sequence of length at most one: None is << >>, Some(n) is <<n>>.        *)
(***************************************************************************)
EXTENDS Integers, Sequences, FiniteSets, TLC

VARIABLES entries, ret, stack, hdr

vars == <<entries, ret, stack, hdr>>

\* ------------------------------------------------------------------ bounds

\* Most entries the store holds at once.
MaxEntries == 2

\* Largest partial-key nibble count given to the header encoder.
MaxPkLen == 600

\* Deepest call stack the stepwise merkleization may build.
StackCap == 8

\* --------------------------------------------------------------- Option<u8>

None == << >>

Some(n) == <<n>>

is_none(o) == o = << >>

\* ------------------------------------------------- byte strings, Ord for Vec<u8>

Min(a, b) == IF a < b THEN a ELSE b

\* a < b in the lexicographic order of Vec<u8> (the key order of the BTreeMap).
LexLess(a, b) ==
    \/ \E i \in 1..Min(Len(a), Len(b)) :
          /\ a[i] < b[i]
          /\ \A j \in 1..(i - 1) : a[j] = b[j]
    \/ /\ Len(a) < Len(b)
       /\ \A j \in 1..Len(a) : a[j] = b[j]

LexLeq(a, b) == a = b \/ LexLess(a, b)

\* slice::starts_with
starts_with(k, prefix) ==
    /\ Len(prefix) <= Len(k)
    /\ \A j \in 1..Len(prefix) : k[j] = prefix[j]

\* ------------------------------------------- BTreeMap<Vec<u8>, Vec<u8>>
\* The map is the sequence of its entries in ascending key order; every
\* lookup and range walks that order, as the tree does.

RECURSIVE lower_bound(_, _, _)
\* The tree's search for a range start: the index, from i on, of the first
\* entry whose key is >= lo; Len(m) + 1 when there is none.
lower_bound(m, lo, i) ==
    IF i > Len(m) THEN i
    ELSE IF ~LexLess(m[i].k, lo) THEN i
    ELSE lower_bound(m, lo, i + 1)

\* BTreeMap::range(lo..): the entries from the first key >= lo on.
range_from(m, lo) == SubSeq(m, lower_bound(m, lo, 1), Len(m))

\* BTreeMap::range(lo..=hi).next(): the first entry with key >= lo when its
\* key is <= hi, as an Option (a sequence of at most one entry).
range_inclusive_next(m, lo, hi) ==
    LET i == lower_bound(m, lo, 1)
    IN  IF i > Len(m) THEN << >>
        ELSE IF LexLeq(m[i].k, hi) THEN <<m[i]>>
        ELSE << >>

\* BTreeMap::contains_key
contains_key(m, key) == \E i \in 1..Len(m) : m[i].k = key

\* BTreeMap::get(key).cloned().unwrap_or(Vec::new())
get_or_empty(m, key) ==
    IF contains_key(m, key)
    THEN m[CHOOSE i \in 1..Len(m) : m[i].k = key /\ \A j \in 1..(i - 1) : m[j].k # key].v
    ELSE << >>

\* The index of key's entry (key is present).
index_of(m, key) == CHOOSE i \in 1..Len(m) : m[i].k = key

\* A plausible slip: the new entry is pushed at the end, the order is not kept.
btree_insert_unsorted(m, key, value) ==
    IF contains_key(m, key)
    THEN [m EXCEPT ![index_of(m, key)] = [k |-> key, v |-> value]]
    ELSE Append(m, [k |-> key, v |-> value])

\* BTreeMap::insert: overwrite the value of a present key, else place the new
\* entry where the search for the key ends, before the first greater key.
btree_insert(m, key, value) ==
    IF contains_key(m, key)
    THEN [m EXCEPT ![index_of(m, key)] = [k |-> key, v |-> value]]
    ELSE LET i == lower_bound(m, key, 1)
         IN  SubSeq(m, 1, i - 1) \o <<[k |-> key, v |-> value]>> \o SubSeq(m, i, Len(m))

\* BTreeMap::remove
btree_remove(m, key) ==
    IF contains_key(m, key)
    THEN LET i == index_of(m, key)
         IN  SubSeq(m, 1, i - 1) \o SubSeq(m, i + 1, Len(m))
    ELSE m

\* ------------------------------------------------------------ Trie: the store

\* Trie::new
new == << >>

\* Trie::insert
insert(self, key, value) == btree_insert(self, key, value)

\* Trie::is_empty
is_empty(self) == Len(self) = 0

\* Trie::clear
clear(self) == << >>

RECURSIVE take_while_starts_with(_, _)
\* .take_while(|(k, _)| k.starts_with(prefix)).map(|(k, _)| k.clone()): the
\* keys of the leading entries of s that start with prefix.
take_while_starts_with(s, prefix) ==
    IF s = << >> THEN << >>
    ELSE IF ~starts_with(Head(s).k, prefix) THEN << >>
    ELSE <<Head(s).k>> \o take_while_starts_with(Tail(s), prefix)

RECURSIVE remove_all(_, _)
\* for to_remove in to_remove { self.entries.remove(&to_remove); }
remove_all(m, keys) ==
    IF keys = << >> THEN m
    ELSE remove_all(btree_remove(m, Head(keys)), Tail(keys))

\* A plausible slip: the range starts after the prefix (an excluded bound), so
\* the key equal to the prefix is kept.
remove_prefix_exclusive(self, prefix) ==
    IF prefix = << >> THEN clear(self)
    ELSE LET from == range_from(self, prefix)
             after == IF from # << >> /\ Head(from).k = prefix THEN Tail(from) ELSE from
         IN  remove_all(self, take_while_starts_with(after, prefix))

\* Trie::remove_prefix
remove_prefix(self, prefix) ==
    IF prefix = << >> THEN clear(self)
    ELSE LET to_remove == take_while_starts_with(range_from(self, prefix), prefix)
         IN  remove_all(self, to_remove)

\* ------------------------------------------------------ integer arithmetic

RECURSIVE BitOr(_, _)
\* a | b on unsigned integers
BitOr(a, b) ==
    IF a = 0 THEN b
    ELSE IF b = 0 THEN a
    ELSE (IF a % 2 = 1 \/ b % 2 = 1 THEN 1 ELSE 0) + 2 * BitOr(a \div 2, b \div 2)

\* x << s on a u8: the bits shifted past bit 7 are lost.
shl_u8(x, s) == (x * (2 ^ s)) % 256

\* x << s on a u16
shl_u16(x, s) == (x * (2 ^ s)) % 65536

\* The value a failed u8 conversion or an overflowing u8 addition leaves in
\* the output: the program has panicked.
Panic == -1

\* u8::try_from(x).unwrap()
u8_try_from_unwrap(x) == IF x \in 0..255 THEN x ELSE Panic

\* a + b on u8 (overflow panics)
u8_add(a, b) == IF a + b \in 0..255 THEN a + b ELSE Panic

\* u16::to_le_bytes
to_le_bytes(x) == <<x % 256, x \div 256>>

\* ------------------------------------------------- encodings and the hash
\* An encoding is [bytes, pre]: `bytes` is the byte string, in which every
\* byte of a blake2b digest is written DigestByte, and `pre` lists the
\* preimages of the digests in `bytes`, in order.  Two encodings are equal
\* exactly when they agree on every plain byte, on where the digests lie and
\* on what was hashed: the hash is taken to be injective.

DigestByte == 256

Plain(s) == [bytes |-> s, pre |-> << >>]

\* Vec::extend
extend(a, b) == [bytes |-> a.bytes \o b.bytes, pre |-> a.pre \o b.pre]

\* blake2b(32, &[], data): a 32-byte digest of data
blake2b(data) == [bytes |-> [i \in 1..32 |-> DigestByte], pre |-> <<data>>]

\* SCALE Compact<u32> of a length (lengths under 2^30)
compact_len(n) ==
    IF n < 64 THEN <<n * 4>>
    ELSE IF n < 16384
    THEN <<(n * 4 + 1) % 256, (n * 4 + 1) \div 256>>
    ELSE <<(n * 4 + 2) % 256, ((n * 4 + 2) \div 256) % 256,
           ((n * 4 + 2) \div 65536) % 256, (n * 4 + 2) \div 16777216>>

\* <Vec<u8> as Encode>::encode: the compact length, then the bytes
encode_vec(v) == compact_len(Len(v)) \o v

\* <[u8; 32] as Encode>::encode: a fixed-size array is its elements, with no
\* length in front
encode_array(mv) == mv

\* ------------------------------------------------------ Trie: node addressing

\* node_has_children with the range starting at `key` itself, so that an entry
\* stored at `key` counts as a child.
node_has_children_from_key(self, key, key_extra_nibble) ==
    LET start == key
        end == Append(key, 255)
    IN  range_inclusive_next(self, start, end) # << >>

\* Trie::node_has_children (key_extra_nibble is not read)
node_has_children(self, key, key_extra_nibble) ==
    LET start == Append(key, 0)
        end == Append(key, 255)
    IN  range_inclusive_next(self, start, end) # << >>

\* Trie::node_children_bitmap.  Pass n of either loop sets bit 15 - n when its
\* test holds; the sixteen bits are distinct, so or-ing them in adds them up.
node_children_bitmap(self, key, key_extra_nibble) ==
    LET has(n) ==
            IF ~is_none(key_extra_nibble)
            THEN node_has_children(
                     self, Append(key, BitOr(shl_u8(key_extra_nibble[1], 4), n)), None)
            ELSE node_has_children(self, key, Some(n))
        bit(n) == IF has(n) THEN shl_u16(1, 15 - n) ELSE 0
    IN  (((bit(0) + bit(1)) + (bit(2) + bit(3))) + ((bit(4) + bit(5)) + (bit(6) + bit(7))))
        + (((bit(8) + bit(9)) + (bit(10) + bit(11)))
           + ((bit(12) + bit(13)) + (bit(14) + bit(15))))

\* Trie::node_partial_key_nibbles (a stub in the source: always empty)
node_partial_key_nibbles(self, key, key_extra_nibble) == << >>

\* ------------------------------------------------------- Trie: node header

RECURSIVE header_len_loop(_, _)
\* while pk_len > 255 { pk_len -= 255; out.push(255); }
\* out.push(u8::try_from(pk_len).unwrap());
header_len_loop(pk_len, out) ==
    IF pk_len > 255 THEN header_len_loop(pk_len - 255, Append(out, 255))
    ELSE Append(out, u8_try_from_unwrap(pk_len))

\* A plausible slip: the long form starts one nibble late (> 63 for >= 63).
header_bytes_late(two_msb, pk_len) ==
    IF pk_len > 63
    THEN header_len_loop(pk_len - 63, <<u8_add(shl_u8(two_msb, 6), 63)>>)
    ELSE <<u8_add(shl_u8(two_msb, 6), u8_try_from_unwrap(pk_len))>>

\* The length part of node_header: the header bytes for kind bits two_msb and
\* a partial key of pk_len nibbles.
header_bytes(two_msb, pk_len) ==
    IF pk_len >= 63
    THEN header_len_loop(pk_len - 63, <<u8_add(shl_u8(two_msb, 6), 63)>>)
    ELSE <<u8_add(shl_u8(two_msb, 6), u8_try_from_unwrap(pk_len))>>

\* The kind bits of node_header.
two_msb(self, key, key_extra_nibble) ==
    LET has_stored_value == is_none(key_extra_nibble) /\ contains_key(self, key)
        has_children == node_has_children(self, key, key_extra_nibble)
    IN  IF ~has_stored_value /\ ~has_children THEN 0
        ELSE IF has_stored_value /\ ~has_children THEN 1
        ELSE IF ~has_stored_value /\ has_children THEN 2
        ELSE 3

\* Trie::node_header
node_header(self, key, key_extra_nibble) ==
    header_bytes(two_msb(self, key, key_extra_nibble),
                 Len(node_partial_key_nibbles(self, key, key_extra_nibble)))

\* ------------------------------------------------ Trie: node value, merkle value

\* out.extend(c[1]); ...; out.extend(c[16]): the sixteen elements of c appended
\* to out, in order.
extend16(out, c) ==
    [bytes |-> out.bytes \o
               ((((c[1].bytes \o c[2].bytes) \o (c[3].bytes \o c[4].bytes)) \o
                 ((c[5].bytes \o c[6].bytes) \o (c[7].bytes \o c[8].bytes))) \o
                (((c[9].bytes \o c[10].bytes) \o (c[11].bytes \o c[12].bytes)) \o
                 ((c[13].bytes \o c[14].bytes) \o (c[15].bytes \o c[16].bytes)))),
     pre |-> out.pre \o
             ((((c[1].pre \o c[2].pre) \o (c[3].pre \o c[4].pre)) \o
               ((c[5].pre \o c[6].pre) \o (c[7].pre \o c[8].pre))) \o
              (((c[9].pre \o c[10].pre) \o (c[11].pre \o c[12].pre)) \o
               ((c[13].pre \o c[14].pre) \o (c[15].pre \o c[16].pre))))]

\* The packing of the partial key in node_value: pairs of nibbles, high
\* nibble first; an odd count puts the first nibble alone in the first byte.
partial_key(nibbles) ==
    IF Len(nibbles) % 2 = 0
    THEN [i \in 1..(Len(nibbles) \div 2) |->
             BitOr(shl_u8(nibbles[2 * i - 1], 4), nibbles[2 * i])]
    ELSE <<nibbles[1]>> \o
         [i \in 1..(Len(nibbles) \div 2) |->
             BitOr(shl_u8(nibbles[2 * i], 4), nibbles[2 * i + 1])]

RECURSIVE merkle_value(_, _, _)
RECURSIVE node_value(_, _, _)
RECURSIVE node_subvalue(_, _, _)

\* A plausible slip: > 32 for >= 32, so a 32-byte encoding is copied, not hashed.
merkle_value_late(self, key, key_extra_nibble) ==
    LET nv == node_value(self, key, key_extra_nibble)
        len == Len(nv.bytes)
    IN  IF (key = << >> /\ is_none(key_extra_nibble)) \/ len > 32
        THEN blake2b(nv)
        ELSE [bytes |-> [i \in 1..32 |-> IF i <= 32 - len THEN 0 ELSE nv.bytes[i - (32 - len)]],
              pre |-> nv.pre]

\* Trie::merkle_value
merkle_value(self, key, key_extra_nibble) ==
    LET nv == node_value(self, key, key_extra_nibble)
        len == Len(nv.bytes)
    IN  IF (key = << >> /\ is_none(key_extra_nibble)) \/ len >= 32
        THEN blake2b(nv)
        ELSE [bytes |-> [i \in 1..32 |-> IF i <= 32 - len THEN 0 ELSE nv.bytes[i - (32 - len)]],
              pre |-> nv.pre]

\* Trie::root_merkle_value
root_merkle_value(self) == merkle_value(self, << >>, None)

\* Trie::node_value
node_value(self, key, key_extra_nibble) ==
    LET partial_key_nibbles == node_partial_key_nibbles(self, key, key_extra_nibble)
    IN  extend(extend(Plain(node_header(self, key, key_extra_nibble)),
                      Plain(partial_key(partial_key_nibbles))),
               node_subvalue(self, key, key_extra_nibble))

\* Trie::node_subvalue
node_subvalue(self, key, key_extra_nibble) ==
    LET encoded_stored_value ==
            encode_vec(IF is_none(key_extra_nibble) THEN get_or_empty(self, key) ELSE << >>)
        children_bitmap == node_children_bitmap(self, key, key_extra_nibble)
        child_merkle_value(n) ==
            IF ~is_none(key_extra_nibble)
            THEN merkle_value(
                     self, Append(key, BitOr(shl_u8(key_extra_nibble[1], 4), n)), None)
            ELSE merkle_value(self, key, Some(n))
        child(n) == encode_array(child_merkle_value(n))
    IN  IF children_bitmap = 0
        THEN Plain(encoded_stored_value)
        ELSE extend(extend16(Plain(to_le_bytes(children_bitmap)),
                             <<child(0), child(1), child(2), child(3),
                               child(4), child(5), child(6), child(7),
                               child(8), child(9), child(10), child(11),
                               child(12), child(13), child(14), child(15)>>),
                    Plain(encoded_stored_value))

\* ------------------------------------------------------------------ inputs

\* A 29-byte and a 30-byte value: stored in a childless node they give a node
\* encoding of 31 and of 32 bytes.
Value29 == [i \in 1..29 |-> 170]

Value30 == [i \in 1..30 |-> 187]

Values == {Value29, Value30}

\* Keys given to insert.
Keys == {<< >>, <<16>>, <<17>>, <<16, 0>>, <<16, 0, 1>>, <<255, 0>>}

\* Prefixes given to remove_prefix.
Prefixes == {<< >>, <<1>>, <<16>>, <<16, 0>>, <<255>>}

\* Node addresses given to merkle_value.
AddressKeys == {<< >>, <<16>>, <<16, 0>>, <<255>>}

ExtraNibbles == {None, Some(0), Some(1)}

RECURSIVE Build(_, _)
\* The store after inserting, from a new Trie, the keys of `order` in that
\* order with the values `val` gives them.
Build(order, val) ==
    IF order = << >> THEN new
    ELSE insert(Build(SubSeq(order, 1, Len(order) - 1), val),
                order[Len(order)], val[order[Len(order)]])

\* The orders in which the keys of the set ks can be inserted.
Orders(ks) ==
    {o \in [1..Cardinality(ks) -> ks] : \A i, j \in 1..Cardinality(ks) : o[i] = o[j] => i = j}

\* Every store of at most MaxEntries entries over keys ks: each built by
\* inserts into a new Trie.
StoresOver(ks) ==
    UNION {{Build(CHOOSE o \in Orders(sub) : TRUE, val) : val \in [sub -> Values]} :
           sub \in {x \in SUBSET ks : Cardinality(x) <= MaxEntries}}

Stores == StoresOver(Keys)

\* ------------------------------------------------------------------ state
\* entries: the Trie's `entries` map.  ret: the last operation, its
\* arguments and what it returned ("call": a merkle_value call not yet run).
\* stack: the merkle_value calls in progress, outermost first (stepwise
\* merkleization).  hdr: an input of the header encoder and its output.

NoBytes == Plain(<< >>)

Ret(op, key, extra, out, flag) ==
    [op |-> op, key |-> key, extra |-> extra, out |-> out, flag |-> flag]

HdrIdle == [two_msb |-> 0, pk_len |-> 0, out |-> << >>, done |-> FALSE]

Init ==
    /\ entries = new
    /\ ret = Ret("new", << >>, None, NoBytes, FALSE)
    /\ stack = << >>
    /\ hdr = HdrIdle

\* ------------------------------------------------------- the store's operations

Insert(key, value) ==
    /\ stack = << >>
    /\ contains_key(entries, key) \/ Len(entries) < MaxEntries
    /\ entries' = insert(entries, key, value)
    /\ ret' = Ret("insert", key, None, Plain(value), FALSE)
    /\ UNCHANGED <<stack, hdr>>

IsEmpty ==
    /\ stack = << >>
    /\ ret' = Ret("is_empty", << >>, None, NoBytes, is_empty(entries))
    /\ UNCHANGED <<entries, stack, hdr>>

Clear ==
    /\ stack = << >>
    /\ entries' = clear(entries)
    /\ ret' = Ret("clear", << >>, None, NoBytes, FALSE)
    /\ UNCHANGED <<stack, hdr>>

\* ret.flag: whether the call removed anything.
RemovePrefix(prefix) ==
    /\ stack = << >>
    /\ entries' = remove_prefix(entries, prefix)
    /\ ret' = Ret("remove_prefix", prefix, None, NoBytes, entries' # entries)
    /\ UNCHANGED <<stack, hdr>>

RootMerkleValue ==
    /\ stack = << >>
    /\ ret' = Ret("root_merkle_value", << >>, None, root_merkle_value(entries), FALSE)
    /\ UNCHANGED <<entries, stack, hdr>>

Next ==
    \/ \E key \in Keys, value \in Values : Insert(key, value)
    \/ IsEmpty
    \/ Clear
    \/ \E prefix \in Prefixes : RemovePrefix(prefix)
    \/ RootMerkleValue

Spec == Init /\ [][Next]_vars

\* ------------------------------------------ merkle_value as a function of its inputs
\* The store and the node address are drawn at the start; the one action runs
\* the call.

InitMerkle ==
    /\ entries \in Stores
    /\ \E key \in AddressKeys, extra \in ExtraNibbles :
          ret = Ret("call", key, extra, NoBytes, FALSE)
    /\ stack = << >>
    /\ hdr = HdrIdle

MerkleValue ==
    /\ stack = << >>
    /\ ret.op = "call"
    /\ ret' = Ret("merkle_value", ret.key, ret.extra,
                  merkle_value(entries, ret.key, ret.extra), FALSE)
    /\ UNCHANGED <<entries, stack, hdr>>

NextMerkle == MerkleValue

SpecMerkle == InitMerkle /\ [][NextMerkle]_vars

\* ------------------------------------------ the header encoder as a function

InitHeader ==
    /\ entries = new
    /\ ret = Ret("new", << >>, None, NoBytes, FALSE)
    /\ stack = << >>
    /\ hdr \in [two_msb : 0..3, pk_len : 0..MaxPkLen, out : {<< >>}, done : {FALSE}]

HeaderEncode ==
    /\ ~hdr.done
    /\ hdr' = [hdr EXCEPT !.out = header_bytes(hdr.two_msb, hdr.pk_len), !.done = TRUE]
    /\ UNCHANGED <<entries, ret, stack>>

NextHeader == HeaderEncode

SpecHeader == InitHeader /\ [][NextHeader]_vars

\* ------------------------------------------ merkleization, one call at a time
\* stack holds a frame [key, extra, n] for every merkle_value call in progress:
\* the node address, and n, the number of child calls node_subvalue has made
\* for it so far.  A call recurses only when its children bitmap is not zero,
\* and then into all sixteen children in order.

WalkAddresses == {<<<< >>, None>>, <<<<16>>, Some(0)>>}

Frame(key, extra) == [key |-> key, extra |-> extra, n |-> 0]

\* The address of child n of node (key, extra), as node_subvalue forms it.
child_address(key, key_extra_nibble, n) ==
    IF ~is_none(key_extra_nibble)
    THEN <<Append(key, BitOr(shl_u8(key_extra_nibble[1], 4), n)), None>>
    ELSE <<key, Some(n)>>

Top == stack[Len(stack)]

\* The stores walked: which calls are made depends on the keys alone, so one
\* value per key is enough.
WalkStores == {self \in Stores : \A i \in 1..Len(self) : self[i].v = Value29}

InitWalk ==
    /\ entries \in WalkStores
    /\ ret = Ret("new", << >>, None, NoBytes, FALSE)
    /\ stack = << >>
    /\ hdr = HdrIdle

\* merkle_value(key, extra) is called from outside.
WalkCall(key, extra) ==
    /\ stack = << >>
    /\ stack' = <<Frame(key, extra)>>
    /\ UNCHANGED <<entries, ret, hdr>>

\* node_subvalue of the innermost call makes its next child call.
WalkDescend ==
    /\ stack # << >>
    /\ Len(stack) < StackCap
    /\ Top.n < 16
    /\ node_children_bitmap(entries, Top.key, Top.extra) # 0
    /\ LET child == child_address(Top.key, Top.extra, Top.n)
       IN  stack' = Append([stack EXCEPT ![Len(stack)].n = Top.n + 1],
                           Frame(child[1], child[2]))
    /\ UNCHANGED <<entries, ret, hdr>>

\* The innermost call returns: it has no children, or has made all sixteen calls.
WalkReturn ==
    /\ stack # << >>
    /\ Top.n = 16 \/ node_children_bitmap(entries, Top.key, Top.extra) = 0
    /\ stack' = SubSeq(stack, 1, Len(stack) - 1)
    /\ UNCHANGED <<entries, ret, hdr>>

NextWalk ==
    \/ \E a \in WalkAddresses : WalkCall(a[1], a[2])
    \/ WalkDescend
    \/ WalkReturn

\* The calls are synchronous: a call in progress keeps running.
SpecWalk == InitWalk /\ [][NextWalk]_vars /\ WF_vars(WalkDescend \/ WalkReturn)

\* ------------------------------------------------- what the properties speak of

\* The nibbles of a byte string, high nibble first.
Nibbles(key) ==
    [i \in 1..(2 * Len(key)) |->
        IF i % 2 = 1 THEN key[(i + 1) \div 2] \div 16 ELSE key[i \div 2] % 16]

\* The nibble path of the node address (key, extra).
NibblePath(key, extra) == Nibbles(key) \o extra

EntrySet(m) == {m[i] : i \in 1..Len(m)}

\* Bit b of x.
BitSet(x, b) == (x \div (2 ^ b)) % 2 = 1

RECURSIVE SumSeq(_)
SumSeq(q) == IF q = << >> THEN 0 ELSE Head(q) + SumSeq(Tail(q))

\* The length of the longest stored key, 0 for an empty store.
LongestKey(m) ==
    IF m = << >> THEN 0
    ELSE CHOOSE l \in {Len(e.k) : e \in EntrySet(m)} : \A e \in EntrySet(m) : Len(e.k) <= l

\* The key-to-value map a store holds.
KeySet(m) == {e.k : e \in EntrySet(m)}

ValueOf(m) == [key \in KeySet(m) |-> get_or_empty(m, key)]

\* ---------------------------------------------------------------- properties

\* C1: merkle_value returns 32 bytes: for the root address the hash of the node
\* encoding whatever its length; for any other address the node encoding
\* right-aligned after leading zero bytes when it is shorter than 32 bytes,
\* and the hash of the node encoding when it is 32 bytes or longer.
C1_MerkleValueRule ==
    ret.op = "merkle_value" =>
        LET nv == node_value(entries, ret.key, ret.extra)
            len == Len(nv.bytes)
        IN  /\ Len(ret.out.bytes) = 32
            /\ IF ret.key = << >> /\ ret.extra = None
               THEN ret.out = blake2b(nv)
               ELSE IF len < 32
               THEN /\ \A i \in 1..(32 - len) : ret.out.bytes[i] = 0
                    /\ \A i \in 1..len : ret.out.bytes[32 - len + i] = nv.bytes[i]
                    /\ ret.out.pre = << >>
               ELSE ret.out = blake2b(nv)

\* A non-root node with a 31-byte encoding was given its merkle value: one
\* zero byte, then the encoding.
C1_Witness ==
    /\ ret.op = "merkle_value"
    /\ ret.key # << >>
    /\ Len(node_value(entries, ret.key, ret.extra).bytes) = 31
    /\ ret.out.bytes[1] = 0
    /\ ret.out.bytes[2] = 64

\* C2: the root node encoding of a trie holding exactly one entry (key, value)
\* is a header of kind 01 with length 2 * len(key), the packed nibbles of the
\* whole key, then the length-prefixed value; the root merkle value is its hash.
C2_SingleEntryRoot ==
    (ret.op = "root_merkle_value" /\ Len(entries) = 1) =>
        LET key == entries[1].k
            value == entries[1].v
        IN  ret.out = blake2b(Plain(header_bytes(1, 2 * Len(key))
                                    \o partial_key(Nibbles(key))
                                    \o encode_vec(value)))

\* C3: replacing the value of a stored key by a different value changes the
\* root node encoding.
C3_TamperEvident ==
    ret.op = "root_merkle_value" =>
        \A i \in 1..Len(entries) :
            \A value \in Values \ {entries[i].v} :
                node_value(insert(entries, entries[i].k, value), << >>, None)
                    # node_value(entries, << >>, None)

\* C4: a remove_prefix(p) step leaves exactly the previous entries whose key
\* does not start with p, each with its previous value; with an empty p it
\* leaves what clear() leaves.
C4_RemovePrefixExact ==
    [][\A prefix \in Prefixes :
          RemovePrefix(prefix) =>
              /\ EntrySet(entries') = {e \in EntrySet(entries) : ~starts_with(e.k, prefix)}
              /\ Len(entries') = Cardinality(EntrySet(entries'))
              /\ prefix = << >> => entries' = clear(entries)]_vars

\* remove_prefix with a non-empty prefix removed something and kept something.
C4_Witness ==
    /\ ret.op = "remove_prefix"
    /\ ret.key # << >>
    /\ ret.flag
    /\ entries # << >>

\* What C5 asks of a state: the value returned is the root merkle value of
\* the store as it is now and of every store built from a new trie by
\* inserting the same key-to-value map, in any order.
C5_State ==
    /\ ret.op = "root_merkle_value" =>
          \A self \in {entries}
                      \cup {Build(order, ValueOf(entries)) : order \in Orders(KeySet(entries))} :
              root_merkle_value(self) = ret.out
    /\ ret.op = "clear" =>
          /\ is_empty(entries)
          /\ root_merkle_value(entries) = root_merkle_value(new)

\* C5: root_merkle_value leaves the store as it was; calling it again returns
\* the same value; the value is the one a new trie gives after inserting the
\* same key-to-value map in any order; after clear() the trie is empty and
\* its root merkle value is that of a new trie.
C5_RootDependsOnEntriesOnly ==
    /\ []C5_State
    /\ [][ret'.op = "root_merkle_value" => entries' = entries]_vars

\* The root merkle value of a store of two entries was computed.
C5_Witness ==
    /\ ret.op = "root_merkle_value"
    /\ Len(entries) = 2

\* C6: bit 15 - n of the children bitmap of a node is set exactly when some
\* stored key's nibble path starts with the node's nibble path followed by n.
C6_BitmapPerNibble ==
    \A n \in 0..15 :
        BitSet(node_children_bitmap(entries, ret.key, ret.extra), 15 - n)
            <=> \E e \in EntrySet(entries) :
                    starts_with(Nibbles(e.k), NibblePath(ret.key, ret.extra) \o <<n>>)

\* C7: node_has_children(key, extra) holds exactly when some stored key has
\* `key` as a strict byte-prefix.
C7_HasChildrenIsPrefixTest ==
    node_has_children(entries, ret.key, ret.extra)
        <=> \E e \in EntrySet(entries) : starts_with(e.k, ret.key) /\ Len(e.k) > Len(ret.key)

\* The subvalue of a node with children, as C8 states it.
C8_SubvalueWithChildren(self, key, extra) ==
    LET c(n) == merkle_value(self, child_address(key, extra, n)[1],
                             child_address(key, extra, n)[2])
    IN  extend(extend16(Plain(to_le_bytes(node_children_bitmap(self, key, extra))),
                        <<c(0), c(1), c(2), c(3), c(4), c(5), c(6), c(7),
                          c(8), c(9), c(10), c(11), c(12), c(13), c(14), c(15)>>),
               Plain(encode_vec(IF is_none(extra) THEN get_or_empty(self, key) ELSE << >>)))

\* C8: the header's kind bits and the subvalue agree: kind 10 or 11 exactly
\* when the subvalue is bitmap, sixteen child merkle values, stored value;
\* kind 00 or 01 exactly when it is the stored value alone; the value bit is
\* set exactly when there is no extra nibble and the store contains the key.
C8_HeaderAgreesWithSubvalue ==
    ret.op = "merkle_value" =>
        LET kind == node_header(entries, ret.key, ret.extra)[1] \div 64
            sub == node_subvalue(entries, ret.key, ret.extra)
            stored == encode_vec(IF is_none(ret.extra)
                                 THEN get_or_empty(entries, ret.key) ELSE << >>)
        IN  /\ kind % 2 = 1 <=> (is_none(ret.extra) /\ contains_key(entries, ret.key))
            /\ kind \in {0, 1} <=> sub = Plain(stored)
            /\ kind \in {2, 3} <=> sub = C8_SubvalueWithChildren(entries, ret.key, ret.extra)

\* What C9 asks of the calls in progress: every recursive call is on a key
\* shorter than the longest stored key, the calls nested inside the outermost
\* one are no more than the nibbles of the longest stored key, and an empty
\* store causes no recursive call.
C9_State ==
    /\ \A j \in 2..Len(stack) : Len(stack[j].key) < LongestKey(entries)
    /\ stack # << >> => Len(stack) - 1 <= 2 * LongestKey(entries)
    /\ entries = << >> => Len(stack) <= 1

\* C9: merkle_value terminates, and its recursion is bounded as C9_State says.
C9_MerkleValueTerminates ==
    /\ []C9_State
    /\ (stack # << >>) ~> (stack = << >>)

\* The recursion is five calls deep below the root call.
C9_Witness ==
    /\ Len(stack) = 6
    /\ stack[1].key = << >>
    /\ stack[6].key = <<16, 0>>

\* C10: the header bytes for kind bits k and L nibbles: no byte is out of
\* 0..255; for L < 63 the one byte (k << 6) | L; for L >= 63 the byte
\* (k << 6) | 63, then bytes that are all 255 but the last and sum to L - 63;
\* another L gives other bytes.
C10_HeaderLength ==
    hdr.done =>
        LET k == hdr.two_msb
            L == hdr.pk_len
            out == hdr.out
        IN  /\ \A i \in 1..Len(out) : out[i] \in 0..255
            /\ L < 63 => out = <<BitOr(k * 64, L)>>
            /\ L >= 63 =>
                  /\ Len(out) >= 2
                  /\ out[1] = BitOr(k * 64, 63)
                  /\ \A i \in 2..(Len(out) - 1) : out[i] = 255
                  /\ SumSeq(Tail(out)) = L - 63
            /\ \A other \in 0..MaxPkLen : other # L => header_bytes(k, other) # out

\* A length that takes two 255 bytes and a last byte was encoded.
C10_Witness ==
    /\ hdr.done
    /\ hdr.pk_len = 574
    /\ hdr.out = <<BitOr(hdr.two_msb * 64, 63), 255, 255, 1>>

====
